---------------------------- MODULE Spec2Model ----------------------------
(***************************************************************************)
(* Model of src/src/components/ReelsRankingDashboard.jsx: the CSV load,    *)
(* the per-row metric derivation, the top-10 ranking effect, the           *)
(* filter/sort/paginate pipeline of the table, the chart-click selection   *)
(* and the detail popover with its document-level mousedown listener.      *)
(*                                                                         *)
(* Conventions.                                                            *)
(*  - A JavaScript string is a sequence of one-character strings.          *)
(*  - `undefined` and `null` are the one-element sequences Undefined and   *)
(*    NullValue, whose element is no character of any modelled string.     *)
(*  - A JavaScript number is an exact rational [n, d] in lowest terms with *)
(*    d > 0.  Views range over powers of ten, where Math.log10 is an       *)
(*    integer, and all rows have Views > 0 (the data model's invariant),   *)
(*    so every derived metric is finite.  IEEE rounding is not modelled.   *)
(*  - Array.prototype.sort is the stable sort ECMAScript 2019 requires.    *)
(*  - A React state change, the re-render it causes and the effects that   *)
(*    re-render schedules (useEffect) are one atomic step.                 *)
(***************************************************************************)
EXTENDS Integers, Sequences, FiniteSets, TLC

VARIABLES
    pc,               \* position of fetchData: "fetch", "text", "loaded", "failed"
    data,             \* useState([])      line 18
    loading,          \* useState(true)    line 19
    rankingMetric,    \* useState('EngagementScore')  line 20
    sortOrder,        \* useState('desc')  line 21
    filterValue,      \* useState('')      line 22
    page,             \* useState(1)       line 23
    top10Data,        \* useState([])      line 24
    selectedReel,     \* useState(null)    line 25
    tooltipPosition,  \* useState({x: 0, y: 0})  line 26
    tooltipRef,       \* useRef(null): TRUE when .current is the popover's div
    listeners,        \* number of registered document 'mousedown' listeners
    row,              \* (SpecDerive) the raw CSV row handed to the map callback
    out               \* (SpecDerive) the callback's result for that row

vars == <<pc, data, loading, rankingMetric, sortOrder, filterValue, page,
          top10Data, selectedReel, tooltipPosition, tooltipRef, listeners,
          row, out>>

(***************************************************************************)
(* Program constants                                                       *)
(***************************************************************************)
rowsPerPage == 10

TopN == 10

DisplayLen == 5

CommentWeight == 3

Percent == 100

DefaultCoord == 100

(***************************************************************************)
(* Bounds of the model                                                     *)
(***************************************************************************)
MaxRows == 21

NumLayouts == 1

MaxUrlLen == 4

MaxCount == 2

MaxLog == 3

(***************************************************************************)
(* JavaScript values                                                       *)
(***************************************************************************)
Undefined == <<"undefined">>

NullValue == <<"null">>

Null == [kind |-> "null"]

IsString(v) == v # Undefined /\ v # NullValue

Max(a, b) == IF a >= b THEN a ELSE b

Min(a, b) == IF a <= b THEN a ELSE b

\* Array.prototype.slice / String.prototype.slice(start, end): negative
\* indices count from the end, both are clamped to [0, length].
JsSlice(s, start, end) ==
    LET len  == Len(s)
        from == IF start < 0 THEN Max(len + start, 0) ELSE Min(start, len)
        to   == IF end < 0 THEN Max(len + end, 0) ELSE Min(end, len)
    IN  SubSeq(s, from + 1, to)

\* arr[0]: undefined on an empty array
First(arr) == IF Len(arr) = 0 THEN Undefined ELSE arr[1]

\* String.prototype.split('/'): always at least one segment, empty ones kept
RECURSIVE Split(_)
Split(s) ==
    LET slashes == {i \in 1..Len(s) : s[i] = "/"}
    IN  IF slashes = {}
        THEN <<s>>
        ELSE LET i == CHOOSE j \in slashes : \A k \in slashes : j <= k
             IN  <<SubSeq(s, 1, i - 1)>> \o Split(SubSeq(s, i + 1, Len(s)))

LowerChar(c) ==
    CASE c = "A" -> "a"
      [] c = "B" -> "b"
      [] c = "C" -> "c"
      [] c = "E" -> "e"
      [] OTHER   -> c

\* String.prototype.toLowerCase
ToLowerCase(s) == [i \in 1..Len(s) |-> LowerChar(s[i])]

\* String.prototype.includes
Includes(s, sub) ==
    \E i \in 0..(Len(s) - Len(sub)) : SubSeq(s, i + 1, i + Len(sub)) = sub

(***************************************************************************)
(* Numbers                                                                 *)
(***************************************************************************)
RECURSIVE GCD(_, _)
GCD(a, b) == IF b = 0 THEN a ELSE GCD(b, a % b)

RatNorm(n, d) ==
    LET g == GCD(IF n < 0 THEN -n ELSE n, d)
    IN  [n |-> n \div g, d |-> d \div g]

Num(k) == [n |-> k, d |-> 1]

RatMul(x, y) == RatNorm(x.n * y.n, x.d * y.d)

RatDiv(x, y) == RatNorm(x.n * y.d, x.d * y.n)

\* x - y, as its sign-carrying numerator over the positive denominator x.d*y.d
RatSub(x, y) == x.n * y.d - y.n * x.d

\* Math.log10 on the powers of ten
Log10(v) == CHOOSE k \in 0..MaxLog : 10 ^ k = v


(***************************************************************************)
(* Metric derivation: the map callback of Papa.parse's `complete`          *)
(***************************************************************************)
Metrics ==
    {"Views", "Likes", "Comments",
     "EngagementRate", "EngagementScore", "ViralCoefficient"}

RawMetrics == {"Views", "Likes", "Comments"}

\* ((row.Likes + row.Comments) / row.Views) * 100
engagementRate(r) ==
    RatMul(RatDiv(Num(r.Likes + r.Comments), Num(r.Views)), Num(Percent))

\* mutant: the weights of likes and comments are swapped
engagementScoreSwapped(r) ==
    RatMul(RatDiv(Num(r.Likes * CommentWeight + r.Comments * 1), Num(r.Views)),
           Num(Percent))

\* (row.Likes * 1 + row.Comments * 3) / row.Views * 100
engagementScore(r) ==
    RatMul(RatDiv(Num(r.Likes * 1 + r.Comments * CommentWeight), Num(r.Views)),
           Num(Percent))

\* Math.log10(row.Views) * engagementRate / 100
viralCoefficient(r) ==
    RatDiv(RatMul(Num(Log10(r.Views)), engagementRate(r)), Num(Percent))

\* mutant: the last segment is taken, slice(-1)[0]
shortUrlLastSegment(reel) ==
    LET segs == Split(reel) IN First(JsSlice(segs, -1, Len(segs)))

\* row.Reel.split('/').slice(-2, -1)[0]
shortUrl(reel) == First(JsSlice(Split(reel), -2, -1))

\* row.Reel.split throws a TypeError when Reel is not a string
RowThrows(r) == ~IsString(r.Reel)

\* { ...row, id: index + 1, EngagementRate, EngagementScore,
\*   ViralCoefficient, ShortUrl }
processRow(r, index) ==
    [Reel             |-> r.Reel,
     Views            |-> r.Views,
     Likes            |-> r.Likes,
     Comments         |-> r.Comments,
     id               |-> index + 1,
     EngagementRate   |-> engagementRate(r),
     EngagementScore  |-> engagementScore(r),
     ViralCoefficient |-> viralCoefficient(r),
     ShortUrl         |-> shortUrl(r.Reel)]

\* results.data.map((row, index) => ...)
processedData(rows) == [i \in 1..Len(rows) |-> processRow(rows[i], i - 1)]

(***************************************************************************)
(* Ranking, filtering, sorting, pagination                                 *)
(***************************************************************************)
\* reel[metric] as a number
MetricOf(reel, metric) ==
    IF metric \in RawMetrics THEN Num(reel[metric]) ELSE reel[metric]

\* (a, b) => b[rankingMetric] - a[rankingMetric]
CompareDesc(a, b, metric) == RatSub(MetricOf(b, metric), MetricOf(a, metric))

\* (a, b) => a[rankingMetric] - b[rankingMetric]
CompareAsc(a, b, metric) == RatSub(MetricOf(a, metric), MetricOf(b, metric))

\* the table's comparator: sortOrder === 'asc' ? a - b : b - a
CompareTable(a, b, metric, order) ==
    IF order = "asc" THEN CompareAsc(a, b, metric)
                     ELSE CompareDesc(a, b, metric)

\* Array.prototype.sort with the table's comparator for `order` (the
\* top-10 comparator of line 83 is the table's 'desc' comparator of line
\* 120): stable; an element goes before the first already-placed element
\* that the comparator puts after it.
StableSort(arr, metric, order) ==
    LET Insert(sorted, x) ==
            LET after == {j \in 1..Len(sorted) :
                             CompareTable(sorted[j], x, metric, order) > 0}
                p == IF after = {} THEN Len(sorted) + 1
                     ELSE CHOOSE j \in after : \A k \in after : j <= k
            IN  SubSeq(sorted, 1, p - 1) \o <<x>> \o SubSeq(sorted, p, Len(sorted))
        F[i \in 0..Len(arr)] ==
            IF i = 0 THEN <<>> ELSE Insert(F[i - 1], arr[i])
    IN  F[Len(arr)]

\* { ...reel, DisplayUrl: reel.ShortUrl.slice(-5) }
WithDisplayUrl(reel) ==
    [Reel             |-> reel.Reel,
     Views            |-> reel.Views,
     Likes            |-> reel.Likes,
     Comments         |-> reel.Comments,
     id               |-> reel.id,
     EngagementRate   |-> reel.EngagementRate,
     EngagementScore  |-> reel.EngagementScore,
     ViralCoefficient |-> reel.ViralCoefficient,
     ShortUrl         |-> reel.ShortUrl,
     DisplayUrl       |-> JsSlice(reel.ShortUrl, -DisplayLen, Len(reel.ShortUrl))]

\* [...data].sort((a, b) => b[m] - a[m])
sortTop(d, metric) == StableSort(d, metric, "desc")

\* [...data].sort(...).slice(0, 10).map(reel => ({...reel, DisplayUrl}))
newTop10(d, metric) ==
    LET top == JsSlice(sortTop(d, metric), 0, TopN)
    IN  [i \in 1..Len(top) |-> WithDisplayUrl(top[i])]

\* mutant: the effect depends on [data] alone and misses metric changes
Top10EffectOnDataOnly(d, metric, old) ==
    IF Len(d) > 0 /\ old = <<>> THEN newTop10(d, metric) ELSE old

\* the useEffect on [data, rankingMetric]: setTop10Data only if data.length > 0
Top10Effect(d, metric, old) == IF Len(d) > 0 THEN newTop10(d, metric) ELSE old

\* mutant: the comparison is case-sensitive
matchesFilterCaseSensitive(item, f) ==
    \/ f = <<>>
    \/ Includes(item.Reel, f)
    \/ Includes(item.ShortUrl, f)

\* filterValue === '' || Reel includes filter || ShortUrl includes filter
\* (both sides lower-cased)
matchesFilter(item, f) ==
    \/ f = <<>>
    \/ Includes(ToLowerCase(item.Reel), ToLowerCase(f))
    \/ Includes(ToLowerCase(item.ShortUrl), ToLowerCase(f))

\* data.filter(...)
filterData(d, f) == SelectSeq(d, LAMBDA item : matchesFilter(item, f))

\* mutant: ascending order obtained by reversing the descending sort
filteredDataReversed(d, f, metric, order) ==
    LET sorted == StableSort(filterData(d, f), metric, "desc")
    IN  IF order = "asc"
        THEN [i \in 1..Len(sorted) |-> sorted[Len(sorted) + 1 - i]]
        ELSE sorted

\* data.filter(...).sort(...)
filteredDataOf(d, f, metric, order) ==
    StableSort(filterData(d, f), metric, order)

\* mutant: the page number is taken as 0-based
paginateZeroBased(fd, p) == JsSlice(fd, p * rowsPerPage, (p + 1) * rowsPerPage)

\* filteredData.slice((page - 1) * rowsPerPage, page * rowsPerPage)
paginate(fd, p) == JsSlice(fd, (p - 1) * rowsPerPage, p * rowsPerPage)

filteredData == filteredDataOf(data, filterValue, rankingMetric, sortOrder)

filteredCount == Len(filterData(data, filterValue))

paginatedData == paginate(filteredData, page)

(***************************************************************************)
(* Array identity.  Array.prototype.sort sorts its receiver in place, so   *)
(* what a sort does to the record list depends on which array object it is *)
(* called on: "data" (the array held by the `data` state) or "new" (an     *)
(* array allocated by the expression).                                     *)
(***************************************************************************)
\* mutant: an empty filter hands the record list itself to the sort
filterResultAliasesData(f) == IF f = <<>> THEN "data" ELSE "new"

\* data.filter(...) allocates its result whatever the predicate accepts
filterResult(f) == "new"

\* [...data] allocates its result
spreadResult(d) == "new"

\* the record list after the render body has computed filteredData
dataAfterRender(d, f, metric, order) ==
    IF filterResult(f) = "data" THEN filteredDataOf(d, f, metric, order) ELSE d

\* the record list after the top-10 effect has run
dataAfterEffect(d, metric) ==
    IF Len(d) > 0 /\ spreadResult(d) = "data" THEN sortTop(d, metric) ELSE d

\* the record list after a state change: the render, then, if `data` or
\* rankingMetric changed, the top-10 effect and the render its setTop10Data
\* causes
dataAfterCommit(d, f, metric, order, effectRuns) ==
    LET rendered == dataAfterRender(d, f, metric, order)
    IN  IF effectRuns
        THEN dataAfterRender(dataAfterEffect(rendered, metric), f, metric, order)
        ELSE rendered

(***************************************************************************)
(* Inputs: the rows Papa.parse hands to `complete`                         *)
(***************************************************************************)
RawRow(reel, v, l, c) == [Reel |-> reel, Views |-> v, Likes |-> l, Comments |-> c]

\* "https://x/y/aaa111"
ExampleUrl ==
    <<"h", "t", "t", "p", "s", ":", "/", "/", "x", "/", "y", "/",
      "a", "a", "a", "1", "1", "1">>

ExampleRow == RawRow(ExampleUrl, 1000, 100, 10)

Pool ==
    << RawRow(<<"x", "/", "A", "b", "/">>, 100, 5, 1),
       ExampleRow,
       RawRow(<<"x", "/", "a", "C", "/">>, 10, 1, 0),
       RawRow(<<"x", "/", "/", "d">>, 10, 0, 1),
       RawRow(<<"x", "/", "a", "b", "c", "d", "E", "f", "/">>, 1, 1, 1),
       RawRow(<<"x", "/", "a", "d", "/">>, 100, 7, 0),
       RawRow(<<"x", "/", "c", "d", "/">>, 100, 5, 1) >>

\* the first n rows of the k-th arrangement of the pool
Dataset(n, k) ==
    [i \in 1..n |-> Pool[(((i - 1) * (2 * k - 1) + (k - 1)) % Len(Pool)) + 1]]

\* a CSV whose second row has no Reel value
MalformedRows == <<Pool[1], RawRow(NullValue, 10, 1, 1)>>

ParsedInputs ==
    {Dataset(n, k) : n \in 0..MaxRows, k \in 1..NumLayouts} \cup {MalformedRows}

SortOrders == {"asc", "desc"}

Filters == { <<>>, <<"a", "B">>, <<"A">>, <<"z">> }

\* chartX / chartY of a click
ClickPoints == { [chartX |-> 0, chartY |-> 7], [chartX |-> 3, chartY |-> 0] }

\* activeLabel of a click: a category of the x axis, none, or a stale one
ChartLabels ==
    {top10Data[i].DisplayUrl : i \in 1..Len(top10Data)} \cup {Undefined, <<"q">>}

(***************************************************************************)
(* Rendering: the popover and its effect                                   *)
(***************************************************************************)
\* <FixedTooltip /> is rendered past the loading guard and returns the
\* popover (and runs its useEffect) only when selectedReel is set
PopoverShown(isLoading, selected) == ~isLoading /\ selected # Null

\* mutant: the effect returns no cleanup
EffectCleanupMissing(n, wasShown) == n

\* the effect's cleanup: document.removeEventListener('mousedown', ...)
EffectCleanup(n, wasShown) == IF wasShown THEN n - 1 ELSE n

\* the effect: document.addEventListener('mousedown', handleClickOutside)
EffectMount(n, shown) == IF shown THEN n + 1 ELSE n

\* a re-render unmounts the previous FixedTooltip (a new component function
\* each render) and mounts the next one
Commit(n, wasShown, shown) == EffectMount(EffectCleanup(n, wasShown), shown)

Rerender ==
    /\ listeners' = Commit(listeners, PopoverShown(loading, selectedReel),
                           PopoverShown(loading', selectedReel'))
    /\ tooltipRef' = PopoverShown(loading', selectedReel')

(***************************************************************************)
(* Initial state: the first render, fetchData started                      *)
(***************************************************************************)
Init ==
    /\ pc = "fetch"
    /\ data = <<>>
    /\ loading = TRUE
    /\ rankingMetric = "EngagementScore"
    /\ sortOrder = "desc"
    /\ filterValue = <<>>
    /\ page = 1
    /\ top10Data = <<>>
    /\ selectedReel = Null
    /\ tooltipPosition = [x |-> 0, y |-> 0]
    /\ tooltipRef = FALSE
    /\ listeners = 0
    /\ row = Null
    /\ out = Null

(***************************************************************************)
(* fetchData                                                               *)
(***************************************************************************)
\* mutant: the catch block only logs
CatchKeepsLoading ==
    /\ pc' = "failed"
    /\ UNCHANGED <<data, loading, top10Data>>

\* catch (error) { console.error(...); setLoading(false); }
Catch ==
    /\ loading' = FALSE
    /\ pc' = "failed"
    /\ UNCHANGED <<data, top10Data>>

\* complete: setData(processedData); setLoading(false); then the top-10 effect
Complete(rows) ==
    /\ data' = dataAfterCommit(processedData(rows), filterValue, rankingMetric,
                                sortOrder, TRUE)
    /\ loading' = FALSE
    /\ pc' = "loaded"
    /\ top10Data' = Top10Effect(data', rankingMetric, top10Data)

\* await fetch(...) resolves
FetchResolve ==
    /\ pc = "fetch"
    /\ pc' = "text"
    /\ UNCHANGED <<data, loading, rankingMetric, sortOrder, filterValue, page,
                   top10Data, selectedReel, tooltipPosition, tooltipRef,
                   listeners, row, out>>

\* await fetch(...) rejects
FetchReject ==
    /\ pc = "fetch"
    /\ Catch
    /\ UNCHANGED <<rankingMetric, sortOrder, filterValue, page, selectedReel,
                   tooltipPosition, row, out>>
    /\ Rerender

\* await response.text() rejects
TextReject ==
    /\ pc = "text"
    /\ Catch
    /\ UNCHANGED <<rankingMetric, sortOrder, filterValue, page, selectedReel,
                   tooltipPosition, row, out>>
    /\ Rerender

\* await response.text() resolves; Papa.parse runs `complete` synchronously,
\* and an exception of the map callback reaches the catch block
ParseComplete ==
    /\ pc = "text"
    /\ \E rows \in ParsedInputs :
          IF \E i \in 1..Len(rows) : RowThrows(rows[i])
          THEN Catch
          ELSE Complete(rows)
    /\ UNCHANGED <<rankingMetric, sortOrder, filterValue, page, selectedReel,
                   tooltipPosition, row, out>>
    /\ Rerender

(***************************************************************************)
(* Controls                                                                *)
(***************************************************************************)
\* <select value={rankingMetric} onChange=...>, then the top-10 effect
SetRankingMetric ==
    /\ ~loading
    /\ \E m \in Metrics \ {rankingMetric} :
          /\ rankingMetric' = m
          /\ top10Data' = Top10Effect(data, m, top10Data)
    /\ UNCHANGED <<pc, loading, sortOrder, filterValue, page,
                   selectedReel, tooltipPosition, row, out>>
    /\ data' = dataAfterCommit(data, filterValue', rankingMetric', sortOrder',
                                TRUE)
    /\ Rerender

\* <select value={sortOrder} onChange=...>
SetSortOrder ==
    /\ ~loading
    /\ \E o \in SortOrders \ {sortOrder} : sortOrder' = o
    /\ UNCHANGED <<pc, loading, rankingMetric, filterValue, page,
                   top10Data, selectedReel, tooltipPosition, row, out>>
    /\ data' = dataAfterCommit(data, filterValue', rankingMetric', sortOrder',
                                FALSE)
    /\ Rerender

\* <input value={filterValue} onChange=...>
SetFilterValue ==
    /\ ~loading
    /\ \E f \in Filters \ {filterValue} : filterValue' = f
    /\ UNCHANGED <<pc, loading, rankingMetric, sortOrder, page,
                   top10Data, selectedReel, tooltipPosition, row, out>>
    /\ data' = dataAfterCommit(data, filterValue', rankingMetric', sortOrder',
                                FALSE)
    /\ Rerender

\* disabled={page === 1}
PreviousDisabled(p) == p = 1

\* disabled={page * rowsPerPage >= filteredData.length}
NextDisabled(p, count) == p * rowsPerPage >= count

\* setPage(p => Math.max(1, p - 1))
PreviousPage ==
    /\ ~loading
    /\ ~PreviousDisabled(page)
    /\ page' = Max(1, page - 1)
    /\ UNCHANGED <<pc, loading, rankingMetric, sortOrder, filterValue,
                   top10Data, selectedReel, tooltipPosition, row, out>>
    /\ data' = dataAfterCommit(data, filterValue', rankingMetric', sortOrder',
                                FALSE)
    /\ Rerender

\* setPage(p => (p * rowsPerPage < filteredData.length ? p + 1 : p))
NextPage ==
    /\ ~loading
    /\ ~NextDisabled(page, filteredCount)
    /\ page' = IF page * rowsPerPage < filteredCount THEN page + 1 ELSE page
    /\ UNCHANGED <<pc, loading, rankingMetric, sortOrder, filterValue,
                   top10Data, selectedReel, tooltipPosition, row, out>>
    /\ data' = dataAfterCommit(data, filterValue', rankingMetric', sortOrder',
                                FALSE)
    /\ Rerender

(***************************************************************************)
(* Selection and the detail popover                                        *)
(***************************************************************************)
\* top10Data.find(item => item.DisplayUrl === label): the index of the first
\* match, 0 when find returns undefined
FindByLabel(top, label) ==
    LET hits == {i \in 1..Len(top) : top[i].DisplayUrl = label}
    IN  IF hits = {} THEN 0 ELSE CHOOSE i \in hits : \A j \in hits : i <= j

\* !data || !data.activeLabel
NoActiveLabel(label) == label = Undefined \/ label = <<>>

\* n || 100
OrDefault(n) == IF n = 0 THEN DefaultCoord ELSE n

\* the index in top10Data of the reel handleChartClick selects for a label,
\* 0 when it returns without selecting
ClickTarget(top, label) ==
    IF NoActiveLabel(label) THEN 0 ELSE FindByLabel(top, label)

\* handleChartClick
ChartClick ==
    /\ ~loading
    /\ \E label \in ChartLabels, pt \in ClickPoints :
          LET found == ClickTarget(top10Data, label)
          IN  IF found = 0
              THEN UNCHANGED <<selectedReel, tooltipPosition>>
              ELSE /\ selectedReel' = top10Data[found]
                   /\ tooltipPosition' = [x |-> OrDefault(pt.chartX),
                                          y |-> OrDefault(pt.chartY)]
    /\ UNCHANGED <<pc, loading, rankingMetric, sortOrder, filterValue,
                   page, top10Data, row, out>>
    /\ data' = dataAfterCommit(data, filterValue', rankingMetric', sortOrder',
                                FALSE)
    /\ Rerender

\* the popover's close button: onClick={() => setSelectedReel(null)}
CloseClick ==
    /\ PopoverShown(loading, selectedReel)
    /\ selectedReel' = Null
    /\ UNCHANGED <<pc, loading, rankingMetric, sortOrder, filterValue,
                   page, top10Data, tooltipPosition, row, out>>
    /\ data' = dataAfterCommit(data, filterValue', rankingMetric', sortOrder',
                                FALSE)
    /\ Rerender

\* a mousedown on the document; handleClickOutside runs if it is registered
MouseDown ==
    /\ \E inside \in {b \in BOOLEAN : b => tooltipRef} :
          IF listeners > 0 /\ tooltipRef /\ ~inside
          THEN selectedReel' = Null
          ELSE UNCHANGED selectedReel
    /\ UNCHANGED <<pc, loading, rankingMetric, sortOrder, filterValue,
                   page, top10Data, tooltipPosition, row, out>>
    /\ data' = dataAfterCommit(data, filterValue', rankingMetric', sortOrder',
                                FALSE)
    /\ Rerender

Next ==
    \/ FetchResolve
    \/ FetchReject
    \/ TextReject
    \/ ParseComplete
    \/ SetRankingMetric
    \/ SetSortOrder
    \/ SetFilterValue
    \/ PreviousPage
    \/ NextPage
    \/ ChartClick
    \/ CloseClick
    \/ MouseDown

Spec == Init /\ [][Next]_vars

(***************************************************************************)
(* SpecDerive: the map callback applied to one raw row                     *)
(***************************************************************************)
UrlChars == {"/", "a", "B"}

\* "https://x/y/aaa111/"
ExampleUrlSlash == ExampleUrl \o <<"/">>

Urls ==
    UNION {[1..k -> UrlChars] : k \in 0..MaxUrlLen}
        \cup {ExampleUrl, ExampleUrlSlash, NullValue}

ViewValues == {10 ^ k : k \in 0..MaxLog}

LikeValues == 0..MaxCount \cup {ExampleRow.Likes}

CommentValues == 0..MaxCount \cup {ExampleRow.Comments}

TypeError == [kind |-> "TypeError"]

InitDerive ==
    /\ row \in {RawRow(u, v, l, c) :
                   u \in Urls, v \in ViewValues,
                   l \in LikeValues, c \in CommentValues}
    /\ out = Null
    /\ pc = "fetch"
    /\ data = <<>>
    /\ loading = TRUE
    /\ rankingMetric = "EngagementScore"
    /\ sortOrder = "desc"
    /\ filterValue = <<>>
    /\ page = 1
    /\ top10Data = <<>>
    /\ selectedReel = Null
    /\ tooltipPosition = [x |-> 0, y |-> 0]
    /\ tooltipRef = FALSE
    /\ listeners = 0

\* (row, index) => { ... } on the first row of the file
DeriveRow ==
    /\ out = Null
    /\ out' = IF RowThrows(row) THEN TypeError ELSE processRow(row, 0)
    /\ UNCHANGED <<row, pc, data, loading, rankingMetric, sortOrder,
                   filterValue, page, top10Data, selectedReel,
                   tooltipPosition, tooltipRef, listeners>>

NextDerive == DeriveRow

SpecDerive == InitDerive /\ [][NextDerive]_vars

Derived == out # Null /\ out # TypeError

(***************************************************************************)
(* SpecPaging: a loaded dashboard with any metric, order and filter, on    *)
(* page 1, where only Previous and Next are pressed                        *)
(***************************************************************************)
InitPaging ==
    /\ \E rows \in {Dataset(n, k) : n \in 0..MaxRows, k \in 1..NumLayouts} :
          data = processedData(rows)
    /\ rankingMetric \in Metrics
    /\ sortOrder \in SortOrders
    /\ filterValue \in Filters
    /\ top10Data = Top10Effect(data, rankingMetric, <<>>)
    /\ pc = "loaded"
    /\ loading = FALSE
    /\ page = 1
    /\ selectedReel = Null
    /\ tooltipPosition = [x |-> 0, y |-> 0]
    /\ tooltipRef = FALSE
    /\ listeners = 0
    /\ row = Null
    /\ out = Null

NextPaging == PreviousPage \/ NextPage

SpecPaging == InitPaging /\ [][NextPaging]_vars

(***************************************************************************)
(* Properties                                                              *)
(***************************************************************************)
\* the value of a record's metric is at least that of another
AtLeast(a, b, metric) == RatSub(MetricOf(a, metric), MetricOf(b, metric)) >= 0

SameValue(a, b, metric) == RatSub(MetricOf(a, metric), MetricOf(b, metric)) = 0

C2_DerivedMetrics ==
    (Derived /\ row.Views > 0) =>
        /\ out.EngagementRate.n * row.Views
              = 100 * (row.Likes + row.Comments) * out.EngagementRate.d
        /\ out.EngagementScore.n * row.Views
              = 100 * (row.Likes + 3 * row.Comments) * out.EngagementScore.d
        /\ (row.Views = 1000 /\ row.Likes = 100 /\ row.Comments = 10) =>
              /\ out.EngagementRate = [n |-> 11, d |-> 1]
              /\ out.EngagementScore = [n |-> 13, d |-> 1]

C2_Witness ==
    /\ Derived
    /\ row = ExampleRow
    /\ out.EngagementRate = [n |-> 11, d |-> 1]
    /\ out.EngagementScore = [n |-> 13, d |-> 1]

\* ceil(n / 10)
PageCount(n) == (n + 9) \div 10

\* C3: with a fixed filtered list of N > 0 records, paging from page 1 stays
\* on pages 1..ceil(N/10) and Next is available exactly below the last one;
\* page p shows the records (p-1)*10+1 .. min(p*10, N) of the filtered list,
\* ten of them before the last page and N mod 10 (10 when that is 0) on it.
C3_Pagination ==
    LET N == filteredCount
        P == PageCount(N)
        shown == paginatedData
    IN  N > 0 =>
          /\ page \in 1..P
          /\ (page < P) <=> ~NextDisabled(page, N)
          /\ Len(shown) = Min(page * 10, N) - (page - 1) * 10
          /\ \A i \in 1..Len(shown) : shown[i] = filteredData[(page - 1) * 10 + i]
          /\ page < P => Len(shown) = 10
          /\ page = P => Len(shown) = (IF N % 10 = 0 THEN 10 ELSE N % 10)

\* the third and last page of 21 records, holding one record
C3_Witness ==
    /\ filteredCount = 21
    /\ page = 3
    /\ Len(paginatedData) = 1
    /\ paginatedData[1] = filteredData[21]

\* the records of d whose ShortUrl contains f, case-insensitively
ShortUrlHits(d, f) ==
    {i \in 1..Len(d) : Includes(ToLowerCase(d[i].ShortUrl), ToLowerCase(f))}

\* the records of d whose Reel URL contains f, case-insensitively
ReelHits(d, f) ==
    {i \in 1..Len(d) : Includes(ToLowerCase(d[i].Reel), ToLowerCase(f))}

\* C4 as claimed: a non-empty filter that is a case-insensitive substring of
\* exactly one record's ShortUrl leaves exactly that record in the table.
C4_AsClaimed ==
    (~loading /\ filterValue # <<>>
        /\ Cardinality(ShortUrlHits(data, filterValue)) = 1) =>
        /\ Len(filteredData) = 1
        /\ filteredData[1].id \in ShortUrlHits(data, filterValue)

\* C4, amended: a non-empty filter that is a case-insensitive substring of
\* exactly one record's ShortUrl and of no other record's Reel URL leaves
\* exactly that record in the table.
C4_UniqueMatch ==
    (~loading /\ filterValue # <<>>
        /\ Cardinality(ShortUrlHits(data, filterValue)) = 1
        /\ ReelHits(data, filterValue) \subseteq ShortUrlHits(data, filterValue)) =>
        /\ Len(filteredData) = 1
        /\ filteredData[1].id \in ShortUrlHits(data, filterValue)

\* the filter "aB" picks the one record whose ShortUrl is "Ab" out of four
C4_Witness ==
    /\ ~loading
    /\ Len(data) = 4
    /\ filterValue = <<"a", "B">>
    /\ Cardinality(ShortUrlHits(data, filterValue)) = 1
    /\ Len(filteredData) = 1
    /\ filteredData[1].ShortUrl = <<"A", "b">>

\* fetchData has finished, through `complete` or through `catch`
LoadDone(p) == p \in {"loaded", "failed"}

\* C5: loading goes from true to false when fetchData finishes, by `complete`
\* or by `catch`, and never back; after a failure the record list is empty;
\* the record list is assigned at most once, by the step that finishes the
\* load, and never after it.
C5_LoadOneWay ==
    [][ /\ ~loading => ~loading'
        /\ LoadDone(pc') => ~loading'
        /\ ~LoadDone(pc') => (loading' /\ data' = <<>>)
        /\ pc' = "failed" => data' = <<>>
        /\ LoadDone(pc) => (pc' = pc /\ data' = data)
        /\ data' # data => (pc = "text" /\ pc' = "loaded") ]_vars

\* a load that succeeded, followed by user actions
C5_Witness ==
    /\ pc = "loaded"
    /\ ~loading
    /\ Len(data) > 10
    /\ page = 2
    /\ filterValue # <<>>

NonEmptySegments(url) == SelectSeq(Split(url), LAMBDA seg : seg # <<>>)

SecondFromLast(segs) == IF Len(segs) >= 2 THEN segs[Len(segs) - 1] ELSE Undefined

\* C6 as claimed: ShortUrl is the second-from-last non-empty segment of the
\* URL split on '/', for every URL (that has two non-empty segments).
C6_AsClaimed ==
    (Derived /\ Len(NonEmptySegments(row.Reel)) >= 2) =>
        out.ShortUrl = SecondFromLast(NonEmptySegments(row.Reel))

\* the text between the last two '/' of the URL (from its start when it has
\* one '/'); undefined when it has none
BetweenLastSlashes(url) ==
    LET slashes == {i \in 1..Len(url) : url[i] = "/"}
    IN  IF slashes = {} THEN Undefined
        ELSE LET last == CHOOSE i \in slashes : \A j \in slashes : j <= i
                 before == {i \in slashes : i < last} \cup {0}
                 prev == CHOOSE i \in before : \A j \in before : j <= i
             IN  SubSeq(url, prev + 1, last - 1)

\* C6, amended: ShortUrl is the second-from-last segment of the URL split on
\* '/', empty segments counted: the text between the last two '/' (undefined
\* for a URL without '/'); "https://x/y/aaa111" gives "y" and
\* "https://x/y/aaa111/" gives "aaa111".  It is the second-from-last
\* non-empty segment whenever the URL's last two segments are non-empty.
C6_SecondFromLastSegment ==
    Derived =>
        /\ out.ShortUrl = BetweenLastSlashes(row.Reel)
        /\ row.Reel = ExampleUrl => out.ShortUrl = <<"y">>
        /\ row.Reel = ExampleUrlSlash =>
              out.ShortUrl = <<"a", "a", "a", "1", "1", "1">>
        /\ LET segs == Split(row.Reel)
           IN  (Len(segs) >= 2 /\ segs[Len(segs)] # <<>>
                    /\ segs[Len(segs) - 1] # <<>>) =>
                   out.ShortUrl = SecondFromLast(NonEmptySegments(row.Reel))

\* a URL ending in '/': the segment before the trailing empty one is taken
C6_Witness ==
    /\ Derived
    /\ row.Reel = ExampleUrlSlash
    /\ out.ShortUrl = <<"a", "a", "a", "1", "1", "1">>
    /\ out.ShortUrl # SecondFromLast(NonEmptySegments(row.Reel))

\* C7: one selected-record slot; a chart click whose label matches a top-10
\* record puts a record with that label in the slot; the close button and a
\* mousedown outside the popover empty it; the metric, sort-order, filter,
\* Previous and Next controls leave it alone.
C7_SelectedSlot ==
    [][ /\ \A i \in 1..Len(top10Data) :
              LET found == ClickTarget(top10Data, top10Data[i].DisplayUrl)
              IN  /\ found # 0
                  /\ top10Data[found].DisplayUrl = top10Data[i].DisplayUrl
        /\ selectedReel' # selectedReel =>
              \/ selectedReel' = Null /\ (CloseClick \/ MouseDown)
              \/ /\ ChartClick
                 /\ \E i \in 1..Len(top10Data) : selectedReel' = top10Data[i]
        /\ (SetRankingMetric \/ SetSortOrder \/ SetFilterValue
                \/ PreviousPage \/ NextPage) => selectedReel' = selectedReel
      ]_vars

\* C8: in the top-10 list and in the table, for either sort order, records
\* with equal values of the active metric are in ascending id order.
C8_StableTies ==
    ~loading =>
        /\ \A i, j \in 1..Len(top10Data) :
              (i < j /\ SameValue(top10Data[i], top10Data[j], rankingMetric))
                  => top10Data[i].id < top10Data[j].id
        /\ LET fd == filteredData
           IN  \A i, j \in 1..Len(fd) :
                  (i < j /\ SameValue(fd[i], fd[j], rankingMetric))
                      => fd[i].id < fd[j].id

\* ascending table order with a tie that is not a repeated row, and a tie
\* inside the top-10 list
C8_Witness ==
    /\ ~loading
    /\ sortOrder = "asc"
    /\ rankingMetric = "EngagementRate"
    /\ LET fd == filteredData
       IN  \E i \in 1..(Len(fd) - 1) :
              /\ SameValue(fd[i], fd[i + 1], rankingMetric)
              /\ fd[i].Views # fd[i + 1].Views \/ fd[i].Likes # fd[i + 1].Likes
              /\ fd[i].id < fd[i + 1].id
    /\ \E i \in 1..(Len(top10Data) - 1) :
          SameValue(top10Data[i], top10Data[i + 1], rankingMetric)

\* C9: at most one document mousedown listener is registered; one is
\* registered whenever a record is selected and none when none is.
C9_ListenerWhileShown ==
    /\ listeners \in {0, 1}
    /\ selectedReel # Null => listeners = 1
    /\ selectedReel = Null => listeners = 0

\* a popover that was re-rendered by a metric change and a page change
C9_Witness ==
    /\ selectedReel # Null
    /\ listeners = 1
    /\ tooltipRef
    /\ rankingMetric # "EngagementScore"
    /\ page = 2

\* C10: page >= 1; Next is not available when page*10 >= filteredCount; and
\* whenever the filtered list is non-empty the shown page is non-empty,
\* (page-1)*10 < filteredCount.
C10_PageInRange ==
    ~loading =>
        /\ page >= 1
        /\ page * 10 >= filteredCount => NextDisabled(page, filteredCount)
        /\ filteredCount > 0 => (page - 1) * 10 < filteredCount

\* the inputs whose map callback throws on no row
LoadableInputs ==
    {rows \in ParsedInputs : \A i \in 1..Len(rows) : ~RowThrows(rows[i])}

\* C11: once loaded, the record list is never mutated: the load leaves it as
\* the processed rows of the file in ingestion order (ids 1, 2, ...), and
\* every later step (control change, page change, click, mousedown, with the
\* recomputation of the top-10 list and of the table it causes) leaves its
\* contents and order unchanged.
C11_RecordListNeverMutated ==
    [][ /\ (pc = "text" /\ pc' = "loaded") =>
               \E rows \in LoadableInputs : data' = processedData(rows)
        /\ pc' = "loaded" => \A i \in 1..Len(data') : data'[i].id = i
        /\ pc = "loaded" => data' = data ]_vars

\* more than a page of records, still in ingestion order, while the table
\* (empty filter, ascending, on its second page) and the top-10 list show
\* them in another order
C11_Witness ==
    /\ pc = "loaded"
    /\ filterValue = <<>>
    /\ sortOrder = "asc"
    /\ rankingMetric = "Views"
    /\ page = 2
    /\ Len(data) > rowsPerPage
    /\ \A i \in 1..Len(data) : data[i].id = i
    /\ top10Data[1].id # data[1].id
    /\ LET fd == filteredData
       IN  /\ Len(fd) = Len(data)
           /\ fd # data
           /\ paginatedData # SubSeq(data, rowsPerPage + 1, Len(fd))

=============================================================================
